---- MODULE Spec2Model ----
(***************************************************************************)
(* Model of the educational virtual machine tool chain:                    *)
(*   assembler.py   - encode_instruction, assemble                         *)
(*   interpreter.py - VirtualMachine, parse_memory_range, main             *)
(*                                                                         *)
(* Python integers are unbounded, so a Python int is modelled as a record  *)
(* [neg, bits] in infinite two's complement: for neg = FALSE the value is  *)
(* the sum of 2^i over i in bits; for neg = TRUE the value is              *)
(* -1 - (sum of 2^i over i in bits), i.e. bits are the positions holding 0.*)
(* Shifts, masks and ors are then exact at every width (the 48-bit         *)
(* LOAD_CONST word included).  Bytes and indices are plain naturals.       *)
(***************************************************************************)
EXTENDS Integers, Sequences, FiniteSets, TLC

(***************************************************************************)
(* Bounds of the model                                                     *)
(***************************************************************************)
MaxOperands == 3
MaxLines == 3
MaxFragments == 3

(***************************************************************************)
(* Python int arithmetic.  An operator binds each operand once             *)
(* (x \in {a}), as Python evaluates an argument once before the call.     *)
(***************************************************************************)
Max(S) == CHOOSE x \in S : \A y \in S : y <= x

\* the Python int with the value of the (small) integer n
PyInt(n) ==
  LET m == IF n < 0 THEN (-1) - n ELSE n
  IN [neg |-> n < 0, bits |-> {i \in 0..30 : (m \div (2^i)) % 2 = 1}]

\* bit i of the two's complement representation of v
Bit(v, i) == IF v.neg THEN i \notin v.bits ELSE i \in v.bits

\* a & b
And(a, b) ==
  CHOOSE r \in
    {LET n == x.neg /\ y.neg
     IN [neg |-> n,
         bits |-> {i \in x.bits \cup y.bits : (Bit(x, i) /\ Bit(y, i)) # n}]
     : x \in {a}, y \in {b}} : TRUE

\* a | b
Or(a, b) ==
  CHOOSE r \in
    {LET n == x.neg \/ y.neg
     IN [neg |-> n,
         bits |-> {i \in x.bits \cup y.bits : (Bit(x, i) \/ Bit(y, i)) # n}]
     : x \in {a}, y \in {b}} : TRUE

\* a << k
Shl(a, k) ==
  CHOOSE r \in
    {[neg |-> x.neg,
      bits |-> {i + k : i \in x.bits} \cup (IF x.neg THEN 0..(k - 1) ELSE {})]
     : x \in {a}} : TRUE

\* a >> k
Shr(a, k) ==
  CHOOSE r \in
    {[neg |-> x.neg, bits |-> {i - k : i \in {j \in x.bits : j >= k}}]
     : x \in {a}} : TRUE

\* a < b
Lt(a, b) ==
  \E x \in {a}, y \in {b} :
    IF x.neg # y.neg THEN x.neg
    ELSE \E d \in {(x.bits \ y.bits) \cup (y.bits \ x.bits)} :
           d # {} /\ (IF x.neg THEN Max(d) \in x.bits ELSE Max(d) \in y.bits)

\* a <= b
Leq(a, b) == \E x \in {a}, y \in {b} : x = y \/ Lt(x, y)

\* a + b, by ripple carry over the two's complement bits
Add(a, b) ==
  CHOOSE r \in
    {LET n == IF x.bits \cup y.bits = {} THEN 1 ELSE Max(x.bits \cup y.bits) + 2
         B2N(t) == IF t THEN 1 ELSE 0
         Carry[i \in 0..n] ==
           IF i = 0 THEN 0
           ELSE (B2N(Bit(x, i - 1)) + B2N(Bit(y, i - 1)) + Carry[i - 1]) \div 2
         SumBit(i) == (B2N(Bit(x, i)) + B2N(Bit(y, i)) + Carry[i]) % 2 = 1
     IN [neg |-> SumBit(n), bits |-> {i \in 0..(n - 1) : SumBit(i) # SumBit(n)}]
     : x \in {a}, y \in {b}} : TRUE

\* the natural number held by a non-negative Python int below 2^31
\* (used where the program indexes a list with it)
ToNat(v) ==
  CHOOSE r \in
    {LET S[i \in 0..31] ==
           IF i = 31 THEN 0 ELSE (IF i \in x.bits THEN 2^i ELSE 0) + S[i + 1]
     IN S[0]
     : x \in {v}} : TRUE

(***************************************************************************)
(* int.to_bytes(n, 'big') and int.from_bytes(bytes, 'big')                 *)
(***************************************************************************)
OverflowError == "OverflowError"

\* to_bytes raises OverflowError for a negative int or one too big for n bytes
Overflows(v, n) == v.neg \/ (\E i \in v.bits : i >= 8 * n)

to_bytes(v, n) ==
  [k \in 1..n |->
     LET W[b \in 0..8] ==
           IF b = 8 THEN 0
           ELSE (IF (8 * (n - k) + b) \in v.bits THEN 2^b ELSE 0) + W[b + 1]
     IN W[0]]

from_bytes(bs) ==
  CHOOSE r \in
    {[neg |-> FALSE,
      bits |-> {8 * (Len(x) - k) + b : <<k, b>> \in
                  {p \in (1..Len(x)) \X (0..7) : (x[p[1]] \div (2^(p[2]))) % 2 = 1}}]
     : x \in {bs}} : TRUE

(***************************************************************************)
(* Text helpers.  A token is an atomic string; str.upper() and int() are   *)
(* tabulated over the tokens the model draws its input from.               *)
(***************************************************************************)
ValueError == "ValueError"

\* str.upper() on a token
upper(tok) ==
  CASE tok = "leq" -> "LEQ"
    [] tok = "Load_Const" -> "LOAD_CONST"
    [] tok = "write_mem" -> "WRITE_MEM"
    [] tok = "nop" -> "NOP"
    [] OTHER -> tok

\* decimal value of the tokens that are integer literals
DecimalValue ==
  ("0" :> PyInt(0)) @@ ("1" :> PyInt(1)) @@ ("2" :> PyInt(2)) @@
  ("3" :> PyInt(3)) @@ ("5" :> PyInt(5)) @@ ("10" :> PyInt(10)) @@
  ("20" :> PyInt(20)) @@ ("21" :> PyInt(21)) @@
  ("31" :> PyInt(31)) @@ ("32" :> PyInt(32)) @@ ("-1" :> PyInt(-1)) @@
  ("255" :> PyInt(255)) @@ ("256" :> PyInt(256)) @@
  ("1431655765" :> PyInt(1431655765)) @@
  ("2147483647" :> PyInt(2147483647)) @@
  ("2147483648" :> Shl(PyInt(1), 31))

\* int(tok) raises ValueError unless tok is an integer literal
IsIntLiteral(tok) == tok \in DOMAIN DecimalValue

\* int(tok) for an integer literal
int(tok) == DecimalValue[tok]

(***************************************************************************)
(* assembler.py: OPCODES and encode_instruction                            *)
(***************************************************************************)
OPCODES == [LOAD_CONST |-> 57, READ_MEM |-> 28, WRITE_MEM |-> 61, LEQ |-> 19]

\* raise ValueError(f"Строка {line_num}: ...") inside encode_instruction
Raise(reason, line_num) ==
  [ok |-> FALSE, exc |-> ValueError, reason |-> reason, line_num |-> line_num]

\* the ValueError raised by int() itself: its message names no line
RaiseInt == [ok |-> FALSE, exc |-> ValueError, reason |-> "NotInteger", line_num |-> 0]

\* encoded = instruction.to_bytes(width, byteorder='big'); return encoded, log_entry
Return(instruction, width, log_entry) ==
  IF Overflows(instruction, width)
  THEN [ok |-> FALSE, exc |-> OverflowError, reason |-> "Overflow", line_num |-> 0]
  ELSE [ok |-> TRUE, encoded |-> to_bytes(instruction, width), log_entry |-> log_entry]

\* map(int, operands) raises when some token is no integer literal
AllInt(operands) == \A i \in 1..Len(operands) : IsIntLiteral(operands[i])

\* mutant: upper limit off by one, B > (1 << 31)
OutOf31_OffByOne(v) == Lt(v, PyInt(0)) \/ Lt(Shl(PyInt(1), 31), v)

\* B < 0 or B > (1 << 31) - 1
OutOf31(v) == Lt(v, PyInt(0)) \/ Lt(Add(Shl(PyInt(1), 31), PyInt(-1)), v)

\* val < 0 or val > 31
OutOf5(v) == Lt(v, PyInt(0)) \/ Lt(PyInt(31), v)

\* (A & 0x3F) << 42 | (B & 0x7FFFFFFF) << 11 | (C & 0x1F) << 6
PackLoadConst(A, B, C) ==
  Or(Or(Shl(And(A, PyInt(63)), 42), Shl(And(B, PyInt(2147483647)), 11)),
     Shl(And(C, PyInt(31)), 6))

\* (A & 0x3F) << 10 | (B & 0x1F) << 5 | (C & 0x1F)
PackReadMem(A, B, C) ==
  Or(Or(Shl(And(A, PyInt(63)), 10), Shl(And(B, PyInt(31)), 5)), And(C, PyInt(31)))

\* (A & 0x3F) << 18 | (B & 0x1F) << 13 | (C & 0x1F) << 8 | (D & 0x1F) << 3
PackWriteMem(A, B, C, D) ==
  Or(Or(Or(Shl(And(A, PyInt(63)), 18), Shl(And(B, PyInt(31)), 13)),
        Shl(And(C, PyInt(31)), 8)),
     Shl(And(D, PyInt(31)), 3))

\* mutant: D of LEQ is shifted by 2 instead of 3
PackLeq_Shift2(A, B, C, D) ==
  Or(Or(Or(Shl(And(A, PyInt(63)), 18), Shl(And(B, PyInt(31)), 13)),
        Shl(And(C, PyInt(31)), 8)),
     Shl(And(D, PyInt(31)), 2))

\* (A & 0x3F) << 18 | (B & 0x1F) << 13 | (C & 0x1F) << 8 | (D & 0x1F) << 3
PackLeq(A, B, C, D) ==
  Or(Or(Or(Shl(And(A, PyInt(63)), 18), Shl(And(B, PyInt(31)), 13)),
        Shl(And(C, PyInt(31)), 8)),
     Shl(And(D, PyInt(31)), 3))

EncodeLoadConst(mnemonic, A, operands, line_num) ==
  IF Len(operands) # 2 THEN Raise("OperandCount", line_num)
  ELSE IF ~AllInt(operands) THEN RaiseInt
  ELSE LET B == int(operands[1])
           C == int(operands[2])
       IN IF OutOf31(B) THEN Raise("OutOfRange", line_num)
          ELSE IF OutOf5(C) THEN Raise("OutOfRange", line_num)
          ELSE Return(PackLoadConst(A, B, C), 6,
                      [mnemonic |-> mnemonic, A |-> A, B |-> B, C |-> C])

\* mutant: READ_MEM serialised on 3 bytes like its neighbours
EncodeReadMem_Width3(mnemonic, A, operands, line_num) ==
  IF Len(operands) # 2 THEN Raise("OperandCount", line_num)
  ELSE IF ~AllInt(operands) THEN RaiseInt
  ELSE LET B == int(operands[1])
           C == int(operands[2])
       IN IF OutOf5(B) THEN Raise("OutOfRange", line_num)
          ELSE IF OutOf5(C) THEN Raise("OutOfRange", line_num)
          ELSE Return(PackReadMem(A, B, C), 3,
                      [mnemonic |-> mnemonic, A |-> A, B |-> B, C |-> C])

EncodeReadMem(mnemonic, A, operands, line_num) ==
  IF Len(operands) # 2 THEN Raise("OperandCount", line_num)
  ELSE IF ~AllInt(operands) THEN RaiseInt
  ELSE LET B == int(operands[1])
           C == int(operands[2])
       IN IF OutOf5(B) THEN Raise("OutOfRange", line_num)
          ELSE IF OutOf5(C) THEN Raise("OutOfRange", line_num)
          ELSE Return(PackReadMem(A, B, C), 2,
                      [mnemonic |-> mnemonic, A |-> A, B |-> B, C |-> C])

EncodeWriteMem(mnemonic, A, operands, line_num) ==
  IF Len(operands) # 3 THEN Raise("OperandCount", line_num)
  ELSE IF ~AllInt(operands) THEN RaiseInt
  ELSE LET B == int(operands[1])
           C == int(operands[2])
           D == int(operands[3])
       IN IF \E val \in {B, C, D} : OutOf5(val) THEN Raise("OutOfRange", line_num)
          ELSE Return(PackWriteMem(A, B, C, D), 3,
                      [mnemonic |-> mnemonic, A |-> A, B |-> B, C |-> C, D |-> D])

\* mutant: the log entry of LEQ names C and D the wrong way round
EncodeLeq_LogSwapped(mnemonic, A, operands, line_num) ==
  IF Len(operands) # 3 THEN Raise("OperandCount", line_num)
  ELSE IF ~AllInt(operands) THEN RaiseInt
  ELSE LET B == int(operands[1])
           C == int(operands[2])
           D == int(operands[3])
       IN IF \E val \in {B, C, D} : OutOf5(val) THEN Raise("OutOfRange", line_num)
          ELSE Return(PackLeq(A, B, C, D), 3,
                      [mnemonic |-> mnemonic, A |-> A, B |-> B, C |-> D, D |-> C])

EncodeLeq(mnemonic, A, operands, line_num) ==
  IF Len(operands) # 3 THEN Raise("OperandCount", line_num)
  ELSE IF ~AllInt(operands) THEN RaiseInt
  ELSE LET B == int(operands[1])
           C == int(operands[2])
           D == int(operands[3])
       IN IF \E val \in {B, C, D} : OutOf5(val) THEN Raise("OutOfRange", line_num)
          ELSE Return(PackLeq(A, B, C, D), 3,
                      [mnemonic |-> mnemonic, A |-> A, B |-> B, C |-> C, D |-> D])

encode_instruction(mnemonic, operands, line_num) ==
  IF mnemonic \notin DOMAIN OPCODES THEN Raise("UnknownMnemonic", line_num)
  ELSE LET A == PyInt(OPCODES[mnemonic])
       IN CASE mnemonic = "LOAD_CONST" -> EncodeLoadConst(mnemonic, A, operands, line_num)
            [] mnemonic = "READ_MEM" -> EncodeReadMem(mnemonic, A, operands, line_num)
            [] mnemonic = "WRITE_MEM" -> EncodeWriteMem(mnemonic, A, operands, line_num)
            [] mnemonic = "LEQ" -> EncodeLeq(mnemonic, A, operands, line_num)
            [] OTHER -> Raise("UnknownMnemonic", line_num)

(***************************************************************************)
(* interpreter.py: the shift/mask extraction of VirtualMachine.execute     *)
(***************************************************************************)
\* program[i:j], clamped to the list as a Python slice is
Slice(s, i, j) ==
  LET hi == IF j < Len(s) THEN j ELSE Len(s)
  IN IF i >= hi THEN <<>> ELSE [k \in 1..(hi - i) |-> s[i + k]]

\* A = (current_byte & 0xFC) >> 2
OpcodeOf(current_byte) == Shr(And(PyInt(current_byte), PyInt(252)), 2)

\* mutant: B extracted with a shift of 10 instead of 11
DecodeLoadConst_Shift10(instr_bytes) ==
  LET instr_val == from_bytes(instr_bytes)
  IN [A |-> And(Shr(instr_val, 42), PyInt(63)),
      B |-> And(Shr(instr_val, 10), PyInt(2147483647)),
      C |-> And(Shr(instr_val, 6), PyInt(31))]

DecodeLoadConst(instr_bytes) ==
  LET instr_val == from_bytes(instr_bytes)
  IN [A |-> And(Shr(instr_val, 42), PyInt(63)),
      B |-> And(Shr(instr_val, 11), PyInt(2147483647)),
      C |-> And(Shr(instr_val, 6), PyInt(31))]

\* mutant: READ_MEM takes B and C from each other's bits
DecodeReadMem_Swapped(instr_bytes) ==
  LET instr_val == from_bytes(instr_bytes)
  IN [A |-> And(Shr(instr_val, 10), PyInt(63)),
      B |-> And(instr_val, PyInt(31)),
      C |-> And(Shr(instr_val, 5), PyInt(31))]

DecodeReadMem(instr_bytes) ==
  LET instr_val == from_bytes(instr_bytes)
  IN [A |-> And(Shr(instr_val, 10), PyInt(63)),
      B |-> And(Shr(instr_val, 5), PyInt(31)),
      C |-> And(instr_val, PyInt(31))]

\* mutant: D of WRITE_MEM is masked without the shift by 3
DecodeWriteMem_NoShift(instr_bytes) ==
  LET instr_val == from_bytes(instr_bytes)
  IN [A |-> And(Shr(instr_val, 18), PyInt(63)),
      B |-> And(Shr(instr_val, 13), PyInt(31)),
      C |-> And(Shr(instr_val, 8), PyInt(31)),
      D |-> And(instr_val, PyInt(31))]

DecodeWriteMem(instr_bytes) ==
  LET instr_val == from_bytes(instr_bytes)
  IN [A |-> And(Shr(instr_val, 18), PyInt(63)),
      B |-> And(Shr(instr_val, 13), PyInt(31)),
      C |-> And(Shr(instr_val, 8), PyInt(31)),
      D |-> And(Shr(instr_val, 3), PyInt(31))]

\* mutant: D of LEQ is masked without the shift by 3
DecodeLeq_NoShift(instr_bytes) ==
  LET instr_val == from_bytes(instr_bytes)
  IN [A |-> And(Shr(instr_val, 18), PyInt(63)),
      B |-> And(Shr(instr_val, 13), PyInt(31)),
      C |-> And(Shr(instr_val, 8), PyInt(31)),
      D |-> And(instr_val, PyInt(31))]

DecodeLeq(instr_bytes) ==
  LET instr_val == from_bytes(instr_bytes)
  IN [A |-> And(Shr(instr_val, 18), PyInt(63)),
      B |-> And(Shr(instr_val, 13), PyInt(31)),
      C |-> And(Shr(instr_val, 8), PyInt(31)),
      D |-> And(Shr(instr_val, 3), PyInt(31))]

\* the if/elif chain of execute over A (57, 28, 61, 19, else)
Dispatch(A) ==
  CASE A = PyInt(57) -> "LOAD_CONST"
    [] A = PyInt(28) -> "READ_MEM"
    [] A = PyInt(61) -> "WRITE_MEM"
    [] A = PyInt(19) -> "LEQ"
    [] OTHER -> "unknown"

\* mutant: LOAD_CONST is taken to be 5 bytes wide
Width_Short(kind) ==
  CASE kind = "LOAD_CONST" -> 5
    [] kind = "READ_MEM" -> 2
    [] kind = "WRITE_MEM" -> 3
    [] kind = "LEQ" -> 3

\* the number of bytes each branch of execute consumes
Width(kind) ==
  CASE kind = "LOAD_CONST" -> 6
    [] kind = "READ_MEM" -> 2
    [] kind = "WRITE_MEM" -> 3
    [] kind = "LEQ" -> 3

\* mutant: the length check lets an instruction lacking its last byte through
Truncated_OffByOne(prog, at, kind) == at + Width(kind) > Len(prog) + 1

\* if self.pc + width > len(self.program): raise ValueError
Truncated(prog, at, kind) == at + Width(kind) > Len(prog)

\* instr_bytes = self.program[self.pc:self.pc+width] and the field extraction
DecodeAt(prog, at, kind) ==
  LET instr_bytes == Slice(prog, at, at + Width(kind))
  IN CASE kind = "LOAD_CONST" -> DecodeLoadConst(instr_bytes)
       [] kind = "READ_MEM" -> DecodeReadMem(instr_bytes)
       [] kind = "WRITE_MEM" -> DecodeWriteMem(instr_bytes)
       [] kind = "LEQ" -> DecodeLeq(instr_bytes)

(***************************************************************************)
(* State                                                                   *)
(***************************************************************************)
VARIABLES
  \* codec: one encode_instruction call followed by the interpreter's decode
  enc_mnemonic, enc_operands, enc_line, enc_result, dec_result, codec_pc,
  \* assembler.py: assemble
  lines, line_num, binary_output, log_output, out_file, log_file,
  asm_stderr, asm_exit, asm_pc,
  \* interpreter.py: VirtualMachine
  program, pc, registers, memory, vm_status, vm_error,
  \* interpreter.py: main (the -r argument, the result file, the exit status)
  range_arg, result_file, vm_exit,
  \* where the loaded image came from
  image_src,
  \* history: address |-> value of the latest WRITE_MEM that stored there
  last_write

codec_vars == <<enc_mnemonic, enc_operands, enc_line, enc_result, dec_result, codec_pc>>
asm_vars == <<lines, line_num, binary_output, log_output, out_file, log_file,
              asm_stderr, asm_exit, asm_pc>>
main_vars == <<range_arg, result_file, vm_exit>>
vm_vars == <<program, pc, registers, memory, vm_status, vm_error, main_vars,
             image_src, last_write>>
vars == <<codec_vars, asm_vars, vm_vars>>

\* sequences over S of length at most n
SeqUpTo(S, n) == UNION {[1..k -> S] : k \in 0..n}

NoResult == [ok |-> FALSE, exc |-> "None", reason |-> "None", line_num |-> 0]
NoDecode == [kind |-> "None"]
NoFile == [written |-> FALSE, data |-> <<>>]
NoError == [line_num |-> 0, ve |-> NoResult]

(***************************************************************************)
(* Codec specification: encode_instruction on drawn inputs, then the       *)
(* interpreter's extraction on the encoded bytes                           *)
(***************************************************************************)
CodecMnemonics == {"LOAD_CONST", "READ_MEM", "WRITE_MEM", "LEQ", "NOP"}
CodecTokens == {"0", "21", "31", "32", "-1", "1431655765", "2147483647",
                "2147483648", "x"}

CodecIdle ==
  /\ enc_mnemonic = "NOP" /\ enc_operands = <<>> /\ enc_line = 0
  /\ enc_result = NoResult /\ dec_result = NoDecode /\ codec_pc = "idle"

AsmIdle ==
  /\ lines = <<>> /\ line_num = 0 /\ binary_output = <<>> /\ log_output = <<>>
  /\ out_file = NoFile /\ log_file = NoFile
  /\ asm_stderr = NoError /\ asm_exit = -1 /\ asm_pc = "idle"

\* no VirtualMachine has been constructed
VmIdle ==
  /\ program = <<>> /\ pc = 0
  /\ registers = <<>>
  /\ memory = <<>>
  /\ vm_status = "idle" /\ vm_error = "None"
  /\ range_arg = <<>> /\ result_file = NoFile /\ vm_exit = -1
  /\ image_src = "none" /\ last_write = <<>>

CodecInit ==
  /\ enc_mnemonic \in CodecMnemonics
  /\ enc_operands \in SeqUpTo(CodecTokens, MaxOperands)
  /\ enc_line \in {1, MaxLines}
  /\ enc_result = NoResult
  /\ dec_result = NoDecode
  /\ codec_pc = "encode"
  /\ AsmIdle /\ VmIdle

CodecEncode ==
  /\ codec_pc = "encode"
  /\ enc_result' = encode_instruction(enc_mnemonic, enc_operands, enc_line)
  /\ codec_pc' = IF enc_result'.ok THEN "decode" ELSE "done"
  /\ UNCHANGED <<enc_mnemonic, enc_operands, enc_line, dec_result>>
  /\ UNCHANGED <<asm_vars, vm_vars>>

\* the fetch of execute at pc = 0 on the encoded bytes
CodecDecode ==
  /\ codec_pc = "decode"
  /\ LET A == OpcodeOf(enc_result.encoded[1])
         kind == Dispatch(A)
     IN dec_result' =
          IF kind = "unknown" THEN [kind |-> "unknown"]
          ELSE IF Truncated(enc_result.encoded, 0, kind) THEN [kind |-> "truncated"]
          ELSE [kind |-> kind, A |-> A, fields |-> DecodeAt(enc_result.encoded, 0, kind)]
  /\ codec_pc' = "done"
  /\ UNCHANGED <<enc_mnemonic, enc_operands, enc_line, enc_result>>
  /\ UNCHANGED <<asm_vars, vm_vars>>

CodecNext == CodecEncode \/ CodecDecode

SpecCodec == CodecInit /\ [][CodecNext]_vars

(***************************************************************************)
(* Properties of the codec                                                 *)
(***************************************************************************)
\* the operand tuple of a decoded instruction
FieldTuple(f) == IF "D" \in DOMAIN f THEN <<f.B, f.C, f.D>> ELSE <<f.B, f.C>>

\* the operand tuple handed to encode_instruction, as integers
OperandTuple == [i \in 1..Len(enc_operands) |-> int(enc_operands[i])]

\* C1: round trip - whenever encode_instruction succeeds, decoding its bytes
\* with the interpreter's opcode sniffing and shift/mask extraction yields
\* the same mnemonic, the same opcode code (sniffed and extracted) and the
\* same operand tuple.
C1_RoundTrip ==
  (codec_pc = "done" /\ enc_result.ok) =>
     /\ dec_result.kind = enc_mnemonic
     /\ dec_result.A = PyInt(OPCODES[enc_mnemonic])
     /\ dec_result.fields.A = PyInt(OPCODES[enc_mnemonic])
     /\ FieldTuple(dec_result.fields) = OperandTuple

\* a LOAD_CONST with the largest immediate and a non-trivial register index
\* has been encoded and decoded back
C1_Witness ==
  /\ codec_pc = "done" /\ enc_result.ok
  /\ enc_mnemonic = "LOAD_CONST"
  /\ enc_operands = <<"2147483647", "21">>
  /\ dec_result.kind = "LOAD_CONST"

\* the byte width the instruction set declares for each opcode
DeclaredWidth(mnemonic) ==
  CASE mnemonic = "LOAD_CONST" -> 6
    [] mnemonic = "READ_MEM" -> 2
    [] mnemonic = "WRITE_MEM" -> 3
    [] mnemonic = "LEQ" -> 3

\* C2: width invariant - every successful encode_instruction call returns
\* exactly the declared byte width of its opcode (6, 2, 3, 3).
C2_WidthInvariant ==
  (codec_pc # "encode" /\ enc_result.ok) =>
     Len(enc_result.encoded) = DeclaredWidth(enc_mnemonic)

\* a READ_MEM, the one 2-byte instruction, has been encoded
C2_Witness ==
  /\ codec_pc # "encode" /\ enc_result.ok
  /\ enc_mnemonic = "READ_MEM" /\ enc_operands = <<"31", "21">>

\* the number of operands and the bit width of operand i the instruction
\* set declares for each opcode
Arity(mnemonic) == IF mnemonic \in {"LOAD_CONST", "READ_MEM"} THEN 2 ELSE 3
FieldBits(mnemonic, i) == IF mnemonic = "LOAD_CONST" /\ i = 1 THEN 31 ELSE 5

\* 0 <= v <= 2^w - 1
Fits(v, w) == ~v.neg /\ v.bits \subseteq 0..(w - 1)

\* C3: operand range check - for a known mnemonic with the right number of
\* integer operands, encode_instruction succeeds exactly when every operand
\* fits its declared width (31 bits for LOAD_CONST B, 5 bits otherwise);
\* otherwise it fails with the out-of-range error, so no out-of-range value
\* is masked into an instruction.
C3_RangeCheck ==
  (/\ codec_pc # "encode"
   /\ enc_mnemonic \in DOMAIN OPCODES
   /\ Len(enc_operands) = Arity(enc_mnemonic)
   /\ \A i \in 1..Len(enc_operands) : IsIntLiteral(enc_operands[i]))
  => /\ enc_result.ok <=>
          \A i \in 1..Len(enc_operands) :
             Fits(int(enc_operands[i]), FieldBits(enc_mnemonic, i))
     /\ ~enc_result.ok =>
          (enc_result.exc = ValueError /\ enc_result.reason = "OutOfRange")

\* LOAD_CONST with B = 2^31, one above the 31-bit limit, was rejected
C3_Witness ==
  /\ codec_pc = "done"
  /\ enc_mnemonic = "LOAD_CONST" /\ enc_operands = <<"2147483648", "31">>
  /\ ~enc_result.ok /\ enc_result.reason = "OutOfRange"

(***************************************************************************)
(* assembler.py: assemble.  A line of text is modelled as the sequence of  *)
(* its maximal lexical runs: a run of blanks " ", a line end "\n", the     *)
(* comment marker "#", or a word.                                          *)
(***************************************************************************)
Min(S) == CHOOSE x \in S : \A y \in S : x <= y

IsSpace(c) == c \in {" ", "\n"}

\* line.split('#', 1)[0]
SplitComment(line) ==
  LET marks == {i \in 1..Len(line) : line[i] = "#"}
  IN IF marks = {} THEN line ELSE SubSeq(line, 1, Min(marks) - 1)

\* str.strip()
strip(line) ==
  LET solid == {i \in 1..Len(line) : ~IsSpace(line[i])}
  IN IF solid = {} THEN <<>> ELSE SubSeq(line, Min(solid), Max(solid))

\* re.split(r'\s+', line) on a stripped, non-empty line
resplit(line) == SelectSeq(line, LAMBDA c : ~IsSpace(c))

\* log_output[key] = value on an insertion-ordered dict
DictSet(d, key, value) ==
  IF \E i \in 1..Len(d) : d[i].key = key
  THEN [i \in 1..Len(d) |-> IF d[i].key = key THEN [key |-> key, value |-> value] ELSE d[i]]
  ELSE Append(d, [key |-> key, value |-> value])

\* f'instruction_{line_num}'
LineKey(n) == <<"instruction_", n>>

\* the text files the model draws its input from
LineSet ==
  { <<"Load_Const", " ", "2147483647", " ", "31", " ", "#", "max", "\n">>,
    <<" ", "leq", " ", "0", " ", "2", " ", "1", "#", "\n">>,
    <<"READ_MEM", " ", "21", " ", "1">>,
    <<"\n">>,
    <<" ", "#", " ", "LEQ", " ", "0", "\n">>,
    <<"nop", "\n">>,
    <<"LEQ", " ", "0", " ", "1", "\n">>,
    <<"READ_MEM", " ", "x", " ", "1", "\n">>,
    <<"WRITE_MEM", " ", "0", " ", "32", " ", "3", "\n">> }

AsmInit ==
  /\ lines \in SeqUpTo(LineSet, MaxLines)
  /\ line_num = 0
  /\ binary_output = <<>>
  /\ log_output = <<>>
  /\ out_file = NoFile /\ log_file = NoFile
  /\ asm_stderr = NoError /\ asm_exit = -1
  /\ asm_pc = "loop"
  /\ CodecIdle /\ VmIdle

\* the loop body up to the call of encode_instruction, for line number n
Stripped(n) == strip(SplitComment(lines[n]))
EncodeLine(n) ==
  LET tokens == resplit(Stripped(n))
  IN encode_instruction(upper(Head(tokens)), Tail(tokens), n)

\* if not line: continue
AsmSkip ==
  /\ asm_pc = "loop" /\ line_num < Len(lines)
  /\ Stripped(line_num + 1) = <<>>
  /\ line_num' = line_num + 1
  /\ UNCHANGED <<lines, binary_output, log_output, out_file, log_file,
                 asm_stderr, asm_exit, asm_pc>>
  /\ UNCHANGED <<codec_vars, vm_vars>>

\* mutant: the new bytes are put in front of the image
AsmEncode_Prepend ==
  /\ asm_pc = "loop" /\ line_num < Len(lines)
  /\ Stripped(line_num + 1) # <<>>
  /\ LET r == EncodeLine(line_num + 1)
     IN /\ r.ok
        /\ IF Len(r.encoded) > 0
           THEN /\ binary_output' = r.encoded \o binary_output
                /\ log_output' = DictSet(log_output, LineKey(line_num + 1), r.log_entry)
           ELSE UNCHANGED <<binary_output, log_output>>
  /\ line_num' = line_num + 1
  /\ UNCHANGED <<lines, out_file, log_file, asm_stderr, asm_exit, asm_pc>>
  /\ UNCHANGED <<codec_vars, vm_vars>>

\* encode_instruction returned: extend the image and record the log entry
AsmEncode ==
  /\ asm_pc = "loop" /\ line_num < Len(lines)
  /\ Stripped(line_num + 1) # <<>>
  /\ LET r == EncodeLine(line_num + 1)
     IN /\ r.ok
        /\ IF Len(r.encoded) > 0
           THEN /\ binary_output' = binary_output \o r.encoded
                /\ log_output' = DictSet(log_output, LineKey(line_num + 1), r.log_entry)
           ELSE UNCHANGED <<binary_output, log_output>>
  /\ line_num' = line_num + 1
  /\ UNCHANGED <<lines, out_file, log_file, asm_stderr, asm_exit, asm_pc>>
  /\ UNCHANGED <<codec_vars, vm_vars>>

\* mutant: the error is printed but the loop goes on to the next line
AsmFail_Continue ==
  /\ asm_pc = "loop" /\ line_num < Len(lines)
  /\ Stripped(line_num + 1) # <<>>
  /\ LET r == EncodeLine(line_num + 1)
     IN /\ ~r.ok
        /\ asm_stderr' = [line_num |-> IF r.exc = ValueError THEN line_num + 1 ELSE 0,
                          ve |-> r]
  /\ asm_exit' = 1
  /\ line_num' = line_num + 1
  /\ UNCHANGED <<lines, binary_output, log_output, out_file, log_file, asm_pc>>
  /\ UNCHANGED <<codec_vars, vm_vars>>

\* except ValueError as ve: print(..., file=sys.stderr); sys.exit(1)
\* (an OverflowError would not be caught and ends the process the same way)
AsmFail ==
  /\ asm_pc = "loop" /\ line_num < Len(lines)
  /\ Stripped(line_num + 1) # <<>>
  /\ LET r == EncodeLine(line_num + 1)
     IN /\ ~r.ok
        /\ asm_stderr' = [line_num |-> IF r.exc = ValueError THEN line_num + 1 ELSE 0,
                          ve |-> r]
  /\ asm_exit' = 1
  /\ asm_pc' = "exited"
  /\ line_num' = line_num + 1
  /\ UNCHANGED <<lines, binary_output, log_output, out_file, log_file>>
  /\ UNCHANGED <<codec_vars, vm_vars>>

\* with open(output_path, 'wb') as f: f.write(binary_output)
AsmWriteBinary ==
  /\ asm_pc = "loop" /\ line_num >= Len(lines)
  /\ out_file' = [written |-> TRUE, data |-> binary_output]
  /\ asm_pc' = "write_log"
  /\ UNCHANGED <<lines, line_num, binary_output, log_output, log_file,
                 asm_stderr, asm_exit>>
  /\ UNCHANGED <<codec_vars, vm_vars>>

\* json.dump(log_output, f, ...), then main returns
AsmWriteLog ==
  /\ asm_pc = "write_log"
  /\ log_file' = [written |-> TRUE, data |-> log_output]
  /\ asm_exit' = 0
  /\ asm_pc' = "exited"
  /\ UNCHANGED <<lines, line_num, binary_output, log_output, out_file, asm_stderr>>
  /\ UNCHANGED <<codec_vars, vm_vars>>

AsmNext == AsmSkip \/ AsmEncode \/ AsmFail \/ AsmWriteBinary \/ AsmWriteLog

SpecAsm == AsmInit /\ [][AsmNext]_vars

(***************************************************************************)
(* Properties of the assembler                                             *)
(***************************************************************************)
\* line n is blank or comment-only
Blank(n) == Stripped(n) = <<>>

\* line n is rejected by encode_instruction
LineFails(n) == ~Blank(n) /\ ~EncodeLine(n).ok
FailLines == {n \in 1..Len(lines) : LineFails(n)}

\* C4: fail-fast - if some line fails, the run stops at the first such line,
\* stderr names its 1-based line number, the exit status is 1 and neither
\* the binary image nor the trace is ever written, whatever was encoded
\* before; and a non-zero exit only comes from such a line.
C4_FailFast ==
  LET failing == FailLines
      first == Min(failing)
  IN /\ failing # {} =>
          /\ ~out_file.written /\ ~log_file.written
          /\ asm_exit # 0
          /\ line_num <= first
          /\ asm_pc \in {"loop", "exited"}
          /\ asm_pc = "exited" =>
               /\ asm_exit = 1
               /\ line_num = first
               /\ asm_stderr.line_num = first
               /\ asm_stderr.ve.exc = ValueError
     /\ asm_exit = 1 => failing # {}

\* a run was aborted at a later line after earlier lines had been encoded
C4_Witness ==
  /\ asm_pc = "exited" /\ asm_exit = 1
  /\ line_num >= 2 /\ Len(binary_output) > 0
  /\ asm_stderr.line_num = line_num
  /\ ~out_file.written /\ ~log_file.written

\* the mnemonic of the non-blank line n
MnemonicOf(n) == upper(Head(resplit(Stripped(n))))

\* concatenation, in source order, of the encodings of the non-blank lines
\* among the first n, and the sum of their declared widths
RECURSIVE ImageOf(_)
ImageOf(n) ==
  IF n = 0 THEN <<>>
  ELSE ImageOf(n - 1) \o (IF Blank(n) THEN <<>> ELSE EncodeLine(n).encoded)

RECURSIVE WidthSum(_)
WidthSum(n) ==
  IF n = 0 THEN 0
  ELSE WidthSum(n - 1) + (IF Blank(n) THEN 0 ELSE DeclaredWidth(MnemonicOf(n)))

\* C5: binary image layout - the image written on success is exactly the
\* concatenation, in source order, of the encodings of the non-blank lines;
\* its length is the sum of their declared widths; blank and comment-only
\* lines add no bytes and no trace entry.
C5_ImageLayout ==
  /\ out_file.written =>
       /\ out_file.data = ImageOf(Len(lines))
       /\ Len(out_file.data) = WidthSum(Len(lines))
  /\ (asm_pc = "loop" /\ FailLines = {}) =>
       /\ binary_output = ImageOf(line_num)
       /\ \A n \in 1..Len(lines) :
            Blank(n) => \A k \in 1..Len(log_output) : log_output[k].key # LineKey(n)

\* an image was written for a text with a blank or comment-only line
\* between two instructions of different widths
C5_Witness ==
  /\ out_file.written
  /\ Len(lines) = 3 /\ ~Blank(1) /\ Blank(2) /\ ~Blank(3)
  /\ DeclaredWidth(MnemonicOf(1)) # DeclaredWidth(MnemonicOf(3))

\* the line numbers of the non-blank lines, in order, and the byte offset
\* of the k-th of them in the image
EncodedLines == SelectSeq([n \in 1..Len(lines) |-> n], LAMBDA n : ~Blank(n))

RECURSIVE OffsetOf(_)
OffsetOf(k) ==
  IF k = 1 THEN 0
  ELSE OffsetOf(k - 1) + DeclaredWidth(MnemonicOf(EncodedLines[k - 1]))

\* C6: trace completeness - the trace written on success has exactly one
\* entry per encoded instruction, in program order, keyed by that line's
\* identifier (so all keys differ), holding the mnemonic, the opcode code A
\* and the operands of the source line, which are the values found in the
\* image at that instruction's offset.
C6_TraceComplete ==
  log_file.written =>
    /\ Len(log_file.data) = Len(EncodedLines)
    /\ \A k \in 1..Len(EncodedLines) :
         LET n == EncodedLines[k]
             e == log_file.data[k].value
             toks == Tail(resplit(Stripped(n)))
             f == DecodeAt(out_file.data, OffsetOf(k), MnemonicOf(n))
         IN /\ log_file.data[k].key = LineKey(n)
            /\ e.mnemonic = MnemonicOf(n)
            /\ e.A = PyInt(OPCODES[MnemonicOf(n)])
            /\ FieldTuple(e) = [i \in 1..Len(toks) |-> int(toks[i])]
            /\ OpcodeOf(out_file.data[OffsetOf(k) + 1]) = e.A
            /\ f.A = e.A
            /\ FieldTuple(f) = FieldTuple(e)
    /\ \A j, k \in 1..Len(log_file.data) :
         j # k => log_file.data[j].key # log_file.data[k].key

\* a trace with a two-operand and a three-operand entry was written
C6_Witness ==
  /\ log_file.written
  /\ Len(log_file.data) >= 2
  /\ \E k \in 1..Len(log_file.data) : log_file.data[k].value.mnemonic = "LEQ"
  /\ \E k \in 1..Len(log_file.data) : log_file.data[k].value.mnemonic = "LOAD_CONST"

(***************************************************************************)
(* interpreter.py: VirtualMachine.  The state is the one main() builds:    *)
(* VirtualMachine(memory_size=256) followed by load_program(binary_data).  *)
(***************************************************************************)
memory_size == 256

\* the byte strings the images of the model are concatenated from
Fragments ==
  { <<228, 0, 0, 0, 40, 0>>,            \* LOAD_CONST 5 -> r0
    <<228, 0, 0, 7, 248, 64>>,          \* LOAD_CONST 255 -> r1
    <<231, 255, 255, 255, 248, 127>>,   \* LOAD_CONST 2^31-1 -> r1, unused bits set
    <<112, 65>>,                        \* READ_MEM r2 <- mem[r1]
    <<244, 1, 7>>,                      \* WRITE_MEM r0 -> mem[r1 + 0], unused bits set
    <<76, 1, 13>>,                      \* LEQ r1 <- (r0 <= r1), unused bits set
    <<0>>,                              \* no opcode
    <<228, 0, 0, 0>>,                   \* 4 bytes of a LOAD_CONST
    <<112>>,                            \* 1 byte of a READ_MEM
    <<244, 1>> }                        \* 2 bytes of a WRITE_MEM

RECURSIVE Concat(_)
Concat(ss) == IF ss = <<>> THEN <<>> ELSE Head(ss) \o Concat(Tail(ss))

Images == {Concat(fs) : fs \in SeqUpTo(Fragments, MaxFragments)}

\* self.registers = [0]*32 and self.memory = [0]*memory_size
NewRegisters == [i \in 0..31 |-> PyInt(0)]
\* mutant: memory cells start at -1
NewMemory_Unset == [i \in 0..(memory_size - 1) |-> PyInt(-1)]

NewMemory == [i \in 0..(memory_size - 1) |-> PyInt(0)]

VmInit ==
  /\ program \in Images
  /\ pc = 0
  /\ registers = NewRegisters
  /\ memory = NewMemory
  /\ vm_status = "running"
  /\ vm_error = "None"
  /\ range_arg = <<>> /\ result_file = NoFile /\ vm_exit = -1
  /\ image_src = "file" /\ last_write = <<>>
  /\ CodecIdle /\ AsmIdle

\* raise ValueError(...) out of execute: main prints it and exits with 1
VmRaise(err) ==
  /\ vm_status' = "failed"
  /\ vm_error' = err
  /\ vm_exit' = 1
  /\ UNCHANGED <<program, pc, registers, memory>>
  /\ UNCHANGED <<range_arg, result_file, image_src, last_write>>

\* the opcode sniffed at pc
KindAtPc == Dispatch(OpcodeOf(program[pc + 1]))

\* addr < 0 or addr >= len(self.memory)
OutOfMemory(addr) == Lt(addr, PyInt(0)) \/ ~Lt(addr, PyInt(memory_size))

\* mutant: LOAD_CONST stores B into the memory cell C
ExecLoadConst_ToMemory ==
  /\ vm_status = "running" /\ pc < Len(program)
  /\ KindAtPc = "LOAD_CONST"
  /\ IF Truncated(program, pc, "LOAD_CONST") THEN VmRaise("TruncatedInstruction")
     ELSE LET f == DecodeAt(program, pc, "LOAD_CONST")
          IN /\ memory' = [memory EXCEPT ![ToNat(f.C)] = f.B]
             /\ pc' = pc + 6
             /\ UNCHANGED <<program, registers, vm_status, vm_error, main_vars,
                            image_src, last_write>>
  /\ UNCHANGED <<codec_vars, asm_vars>>

ExecLoadConst ==
  /\ vm_status = "running" /\ pc < Len(program)
  /\ KindAtPc = "LOAD_CONST"
  /\ IF Truncated(program, pc, "LOAD_CONST") THEN VmRaise("TruncatedInstruction")
     ELSE LET f == DecodeAt(program, pc, "LOAD_CONST")
          IN /\ registers' = [registers EXCEPT ![ToNat(f.C)] = f.B]
             /\ pc' = pc + 6
             /\ UNCHANGED <<program, memory, vm_status, vm_error, main_vars,
                         image_src, last_write>>
  /\ UNCHANGED <<codec_vars, asm_vars>>

\* mutant: READ_MEM advances pc by 3 like WRITE_MEM and LEQ
ExecReadMem_Pc3 ==
  /\ vm_status = "running" /\ pc < Len(program)
  /\ KindAtPc = "READ_MEM"
  /\ IF Truncated(program, pc, "READ_MEM") THEN VmRaise("TruncatedInstruction")
     ELSE LET f == DecodeAt(program, pc, "READ_MEM")
              addr == registers[ToNat(f.C)]
          IN IF OutOfMemory(addr) THEN VmRaise("MemoryOutOfBounds")
             ELSE /\ registers' = [registers EXCEPT ![ToNat(f.B)] = memory[ToNat(addr)]]
                  /\ pc' = pc + 3
                  /\ UNCHANGED <<program, memory, vm_status, vm_error, main_vars,
                         image_src, last_write>>
  /\ UNCHANGED <<codec_vars, asm_vars>>

ExecReadMem ==
  /\ vm_status = "running" /\ pc < Len(program)
  /\ KindAtPc = "READ_MEM"
  /\ IF Truncated(program, pc, "READ_MEM") THEN VmRaise("TruncatedInstruction")
     ELSE LET f == DecodeAt(program, pc, "READ_MEM")
              addr == registers[ToNat(f.C)]
          IN IF OutOfMemory(addr) THEN VmRaise("MemoryOutOfBounds")
             ELSE /\ registers' = [registers EXCEPT ![ToNat(f.B)] = memory[ToNat(addr)]]
                  /\ pc' = pc + 2
                  /\ UNCHANGED <<program, memory, vm_status, vm_error, main_vars,
                         image_src, last_write>>
  /\ UNCHANGED <<codec_vars, asm_vars>>

\* mutant: WRITE_MEM checks only the lower bound of the address
ExecWriteMem_NoUpper ==
  /\ vm_status = "running" /\ pc < Len(program)
  /\ KindAtPc = "WRITE_MEM"
  /\ IF Truncated(program, pc, "WRITE_MEM") THEN VmRaise("TruncatedInstruction")
     ELSE LET f == DecodeAt(program, pc, "WRITE_MEM")
              base_addr == registers[ToNat(f.C)]
              addr == Add(base_addr, f.D)
              val == registers[ToNat(f.B)]
          IN IF Lt(addr, PyInt(0)) THEN VmRaise("MemoryOutOfBounds")
             ELSE /\ memory' = [memory EXCEPT ![ToNat(addr)] = val]
                  /\ last_write' = (ToNat(addr) :> val) @@ last_write
                  /\ pc' = pc + 3
                  /\ UNCHANGED <<program, registers, vm_status, vm_error, main_vars,
                              image_src>>
  /\ UNCHANGED <<codec_vars, asm_vars>>

ExecWriteMem ==
  /\ vm_status = "running" /\ pc < Len(program)
  /\ KindAtPc = "WRITE_MEM"
  /\ IF Truncated(program, pc, "WRITE_MEM") THEN VmRaise("TruncatedInstruction")
     ELSE LET f == DecodeAt(program, pc, "WRITE_MEM")
              base_addr == registers[ToNat(f.C)]
              addr == Add(base_addr, f.D)
              val == registers[ToNat(f.B)]
          IN IF OutOfMemory(addr) THEN VmRaise("MemoryOutOfBounds")
             ELSE /\ memory' = [memory EXCEPT ![ToNat(addr)] = val]
                  /\ last_write' = (ToNat(addr) :> val) @@ last_write
                  /\ pc' = pc + 3
                  /\ UNCHANGED <<program, registers, vm_status, vm_error, main_vars,
                              image_src>>
  /\ UNCHANGED <<codec_vars, asm_vars>>

\* mutant: LEQ compares with < instead of <=
ExecLeq_Strict ==
  /\ vm_status = "running" /\ pc < Len(program)
  /\ KindAtPc = "LEQ"
  /\ IF Truncated(program, pc, "LEQ") THEN VmRaise("TruncatedInstruction")
     ELSE LET f == DecodeAt(program, pc, "LEQ")
              val1 == registers[ToNat(f.B)]
              val2 == registers[ToNat(f.D)]
          IN /\ registers' = [registers EXCEPT ![ToNat(f.C)] =
                                 IF Lt(val1, val2) THEN PyInt(1) ELSE PyInt(0)]
             /\ pc' = pc + 3
             /\ UNCHANGED <<program, memory, vm_status, vm_error, main_vars,
                         image_src, last_write>>
  /\ UNCHANGED <<codec_vars, asm_vars>>

ExecLeq ==
  /\ vm_status = "running" /\ pc < Len(program)
  /\ KindAtPc = "LEQ"
  /\ IF Truncated(program, pc, "LEQ") THEN VmRaise("TruncatedInstruction")
     ELSE LET f == DecodeAt(program, pc, "LEQ")
              val1 == registers[ToNat(f.B)]
              val2 == registers[ToNat(f.D)]
          IN /\ registers' = [registers EXCEPT ![ToNat(f.C)] =
                                 IF Leq(val1, val2) THEN PyInt(1) ELSE PyInt(0)]
             /\ pc' = pc + 3
             /\ UNCHANGED <<program, memory, vm_status, vm_error, main_vars,
                         image_src, last_write>>
  /\ UNCHANGED <<codec_vars, asm_vars>>

\* mutant: an unknown byte is skipped instead of ending the run
ExecUnknown_Skip ==
  /\ vm_status = "running" /\ pc < Len(program)
  /\ KindAtPc = "unknown"
  /\ pc' = pc + 1
  /\ UNCHANGED <<program, registers, memory, vm_status, vm_error, main_vars,
                 image_src, last_write>>
  /\ UNCHANGED <<codec_vars, asm_vars>>

\* else: raise ValueError(f"Неизвестный opcode: {A} при PC={self.pc}")
ExecUnknown ==
  /\ vm_status = "running" /\ pc < Len(program)
  /\ KindAtPc = "unknown"
  /\ VmRaise("UnknownOpcode")
  /\ UNCHANGED <<codec_vars, asm_vars>>

\* mutant: at the end of a non-empty image the loop starts over at pc = 0
Halt_Restart ==
  /\ vm_status = "running" /\ pc >= Len(program)
  /\ pc' = 0
  /\ vm_status' = IF pc = 0 THEN "halted" ELSE "running"
  /\ UNCHANGED <<program, registers, memory, vm_error, main_vars,
                 image_src, last_write>>
  /\ UNCHANGED <<codec_vars, asm_vars>>

\* the loop condition self.pc < len(self.program) fails: execute returns
Halt ==
  /\ vm_status = "running" /\ pc >= Len(program)
  /\ vm_status' = "halted"
  /\ UNCHANGED <<program, pc, registers, memory, vm_error, main_vars,
                 image_src, last_write>>
  /\ UNCHANGED <<codec_vars, asm_vars>>

(***************************************************************************)
(* interpreter.py: parse_memory_range, get_memory_slice and the end of     *)
(* main                                                                    *)
(***************************************************************************)
\* the -r arguments tried, each a sequence of lexical runs: a run of decimal
\* digits, ":", a newline, or a word holding some other character
RangeArgs ==
  { <<"0", ":", "3">>, <<"3", ":", "3">>, <<"0", ":", "255">>,
    <<"5", ":", "2">>, <<"0", ":", "256">>, <<"-1", ":", "3">>,
    <<"x", ":", "1">>, <<"3">>, <<"0", ":", "3", "\n">> }

\* the runs \d+ matches
IsDigits(tok) == IsIntLiteral(tok) /\ tok # "-1"

\* re.match(r'^(\d+):(\d+)$', memory_range_str); "$" matches at the end of
\* the string and also just before a newline that ends the string
RangeMatch(memory_range_str) ==
  /\ Len(memory_range_str) \in {3, 4}
  /\ IsDigits(memory_range_str[1])
  /\ memory_range_str[2] = ":"
  /\ IsDigits(memory_range_str[3])
  /\ Len(memory_range_str) = 4 => memory_range_str[4] = "\n"

parse_memory_range(memory_range_str, size) ==
  IF ~RangeMatch(memory_range_str) THEN [ok |-> FALSE, reason |-> "format"]
  ELSE LET start == int(memory_range_str[1])
           end == int(memory_range_str[3])
       IN IF Lt(start, PyInt(0)) \/ ~Lt(end, PyInt(size)) \/ Lt(end, start)
          THEN [ok |-> FALSE, reason |-> "range"]
          ELSE [ok |-> TRUE, start |-> ToNat(start), end |-> ToNat(end)]

\* self.memory[start:end + 1]
get_memory_slice(start, end) ==
  LET lo == IF start < memory_size THEN start ELSE memory_size
      hi == IF end + 1 < memory_size THEN end + 1 ELSE memory_size
  IN IF lo >= hi THEN <<>> ELSE [k \in 1..(hi - lo) |-> memory[lo + k - 1]]

\* execute returned; parse_memory_range(args.range, len(vm.memory)) raises
\* ValueError: main prints it and exits with 1
MainRangeError ==
  /\ vm_status = "halted" /\ vm_exit = -1
  /\ \E r \in RangeArgs :
       /\ ~parse_memory_range(r, Cardinality(DOMAIN memory)).ok
       /\ range_arg' = r
  /\ vm_exit' = 1
  /\ UNCHANGED <<program, pc, registers, memory, vm_status, vm_error,
                 result_file, image_src, last_write>>
  /\ UNCHANGED <<codec_vars, asm_vars>>

\* execute returned and the range is accepted: the slice is dumped into the
\* result file and main returns
MainWriteResult ==
  /\ vm_status = "halted" /\ vm_exit = -1
  /\ \E r \in RangeArgs :
       LET parsed == parse_memory_range(r, Cardinality(DOMAIN memory))
       IN /\ parsed.ok
          /\ range_arg' = r
          /\ result_file' = [written |-> TRUE,
                             data |-> get_memory_slice(parsed.start, parsed.end)]
  /\ vm_exit' = 0
  /\ UNCHANGED <<program, pc, registers, memory, vm_status, vm_error,
                 image_src, last_write>>
  /\ UNCHANGED <<codec_vars, asm_vars>>

VmNext ==
  \/ ExecLoadConst \/ ExecReadMem \/ ExecWriteMem \/ ExecLeq \/ ExecUnknown
  \/ Halt \/ MainRangeError \/ MainWriteResult

SpecVm == VmInit /\ [][VmNext]_vars

\* execute is a sequential loop and main runs to its end: whenever a step is
\* possible one is eventually taken
SpecVmFair == VmInit /\ [][VmNext]_vars /\ WF_vars(VmNext)

(***************************************************************************)
(* Pipeline specification: assembler.py runs on a text, then               *)
(* interpreter.py runs on the image file it wrote, or on an edited copy    *)
(***************************************************************************)
PipeLineSet ==
  { <<"LOAD_CONST", " ", "5", " ", "0", "\n">>,
    <<"Load_Const", " ", "2147483647", " ", "31", " ", "#", "max", "\n">>,
    <<"write_mem", " ", "0", " ", "31", " ", "3", "\n">>,
    <<"READ_MEM", " ", "2", " ", "31", "\n">>,
    <<" ", "leq", " ", "0", " ", "2", " ", "3", "#", "\n">>,
    <<" ", "#", " ", "LEQ", " ", "0", "\n">>,
    <<"nop", "\n">> }

PipeInit ==
  /\ lines \in SeqUpTo(PipeLineSet, MaxLines)
  /\ line_num = 0
  /\ binary_output = <<>>
  /\ log_output = <<>>
  /\ out_file = NoFile /\ log_file = NoFile
  /\ asm_stderr = NoError /\ asm_exit = -1
  /\ asm_pc = "loop"
  /\ CodecIdle /\ VmIdle

\* the unused trailing bits of every instruction of an image set to 1
\* (6 bits of a LOAD_CONST, 3 bits of a WRITE_MEM or LEQ)
RECURSIVE SetUnused(_, _)
SetUnused(image, at) ==
  IF at >= Len(image) THEN image
  ELSE LET lead == image[at + 1] \div 4
           w == CASE lead = 57 -> 6 [] lead = 28 -> 2 [] lead \in {61, 19} -> 3
                  [] OTHER -> 0
           unused == CASE lead = 57 -> 64 [] lead \in {61, 19} -> 8 [] OTHER -> 1
       IN IF w = 0 \/ at + w > Len(image) THEN image
          ELSE SetUnused([image EXCEPT ![at + w] = (@ \div unused) * unused + (unused - 1)],
                         at + w)

\* an edited copy of the image file
Edited(image, edit) ==
  CASE edit = "junk" -> SetUnused(image, 0)
    [] edit = "cut_last" -> Slice(image, 0, Len(image) - 1)
    [] edit = "cut_first" -> Slice(image, 1, Len(image))

\* main of interpreter.py reads the file the assembler wrote, constructs the
\* machine and loads the program
PipeLoad ==
  /\ asm_pc = "exited" /\ asm_exit = 0
  /\ vm_status = "idle"
  /\ program' = out_file.data
  /\ pc' = 0
  /\ registers' = NewRegisters
  /\ memory' = NewMemory
  /\ vm_status' = "running"
  /\ image_src' = "assembled"
  /\ UNCHANGED <<vm_error, main_vars, last_write>>
  /\ UNCHANGED <<codec_vars, asm_vars>>

\* the same on a copy of the file that was edited in between
PipeLoadEdited ==
  /\ asm_pc = "exited" /\ asm_exit = 0
  /\ vm_status = "idle"
  /\ Len(out_file.data) > 0
  /\ \E edit \in {"junk", "cut_last", "cut_first"} :
       /\ program' = Edited(out_file.data, edit)
       /\ image_src' = edit
  /\ pc' = 0
  /\ registers' = NewRegisters
  /\ memory' = NewMemory
  /\ vm_status' = "running"
  /\ UNCHANGED <<vm_error, main_vars, last_write>>
  /\ UNCHANGED <<codec_vars, asm_vars>>

PipeNext == AsmNext \/ PipeLoad \/ PipeLoadEdited \/ VmNext

SpecPipe == PipeInit /\ [][PipeNext]_vars

\* VirtualMachine.execute as a function of the machine it is called on: the
\* machine as execute leaves it, by return or by a raised error
RECURSIVE execute(_)
execute(m) ==
  IF m.pc >= Len(m.program) THEN [m EXCEPT !.status = "halted"]
  ELSE LET kind == Dispatch(OpcodeOf(m.program[m.pc + 1]))
           raise(err) == [m EXCEPT !.status = "failed", !.error = err]
       IN IF kind = "unknown" THEN raise("UnknownOpcode")
          ELSE IF Truncated(m.program, m.pc, kind) THEN raise("TruncatedInstruction")
          ELSE LET f == DecodeAt(m.program, m.pc, kind)
               IN CASE kind = "LOAD_CONST" ->
                         execute([m EXCEPT !.registers[ToNat(f.C)] = f.B, !.pc = @ + 6])
                    [] kind = "READ_MEM" ->
                         LET addr == m.registers[ToNat(f.C)]
                         IN IF OutOfMemory(addr) THEN raise("MemoryOutOfBounds")
                            ELSE execute([m EXCEPT !.registers[ToNat(f.B)] =
                                                     m.memory[ToNat(addr)],
                                                   !.pc = @ + 2])
                    [] kind = "WRITE_MEM" ->
                         LET addr == Add(m.registers[ToNat(f.C)], f.D)
                         IN IF OutOfMemory(addr) THEN raise("MemoryOutOfBounds")
                            ELSE execute([m EXCEPT !.memory[ToNat(addr)] =
                                                     m.registers[ToNat(f.B)],
                                                   !.pc = @ + 3])
                    [] kind = "LEQ" ->
                         execute([m EXCEPT !.registers[ToNat(f.C)] =
                                             IF Leq(m.registers[ToNat(f.B)],
                                                    m.registers[ToNat(f.D)])
                                             THEN PyInt(1) ELSE PyInt(0),
                                           !.pc = @ + 3])

\* a fresh machine with the image loaded
Loaded(image) ==
  [program |-> image, pc |-> 0, registers |-> NewRegisters, memory |-> NewMemory,
   status |-> "running", error |-> "None"]

(***************************************************************************)
(* Properties of the interpreter                                           *)
(***************************************************************************)
\* the leading 6 bits of the byte at pc, and the opcodes of the closed set
LeadBits == program[pc + 1] \div 4

MnemonicOfCode(code) ==
  CASE code = 57 -> "LOAD_CONST"
    [] code = 28 -> "READ_MEM"
    [] code = 61 -> "WRITE_MEM"
    [] code = 19 -> "LEQ"

KnownCodes == {57, 28, 61, 19}

\* a fetch is about to happen at pc
Fetching == vm_status = "running" /\ pc < Len(program)

\* the step fails with err and leaves registers, memory and pc as they were
FailsWith(err) ==
  /\ vm_status' = "failed" /\ vm_error' = err
  /\ registers' = registers /\ memory' = memory /\ pc' = pc

\* the opcode at pc is known but its declared width exceeds the bytes left
TruncatedAtPc ==
  /\ LeadBits \in KnownCodes
  /\ Len(program) - pc < DeclaredWidth(MnemonicOfCode(LeadBits))

\* C7: truncated instruction - when the opcode at pc is known but fewer
\* bytes than its declared width remain, the step fails with
\* TruncatedInstruction and registers, memory and pc stay as they were
\* before that fetch.
C7_Truncated ==
  [][(Fetching /\ TruncatedAtPc) => FailsWith("TruncatedInstruction")]_vars

\* a run failed on a truncated instruction after an earlier instruction had
\* changed the registers
C7_Witness ==
  /\ vm_status = "failed" /\ vm_error = "TruncatedInstruction"
  /\ pc > 0 /\ pc < Len(program)
  /\ registers[0] = PyInt(5)

\* C8: unknown opcode - when the leading 6 bits of the byte at pc are none
\* of 57, 28, 61, 19 the step fails with UnknownOpcode leaving registers,
\* memory and pc as they were, and after a failure nothing changes any more.
C8_UnknownOpcode ==
  [][/\ (Fetching /\ LeadBits \notin KnownCodes) => FailsWith("UnknownOpcode")
     /\ vm_status = "failed" => UNCHANGED vm_vars]_vars

\* a run failed on an unknown opcode after executing some instruction
C8_Witness ==
  /\ vm_status = "failed" /\ vm_error = "UnknownOpcode"
  /\ pc > 0 /\ pc < Len(program)
  /\ program[pc + 1] = 0

\* the address a complete WRITE_MEM or READ_MEM at pc computes
AddressAtPc ==
  IF LeadBits = 61
  THEN LET f == DecodeAt(program, pc, "WRITE_MEM")
       IN Add(registers[ToNat(f.C)], f.D)
  ELSE LET f == DecodeAt(program, pc, "READ_MEM")
       IN registers[ToNat(f.C)]

\* a complete WRITE_MEM or READ_MEM at pc addresses a cell outside
\* [0, memory size)
OutOfBoundsAtPc ==
  /\ LeadBits \in {61, 28}
  /\ ~TruncatedAtPc
  /\ ~Fits(AddressAtPc, 8)

\* C9: memory out of bounds - a WRITE_MEM whose address registers[C] + D, or
\* a READ_MEM whose address registers[C], lies outside [0, memory size)
\* fails with MemoryOutOfBounds and leaves memory, registers and pc
\* unchanged.
C9_MemoryOutOfBounds ==
  [][(Fetching /\ OutOfBoundsAtPc) => FailsWith("MemoryOutOfBounds")]_vars

\* a WRITE_MEM failed on an address beyond the memory
C9_Witness ==
  /\ vm_status = "failed" /\ vm_error = "MemoryOutOfBounds"
  /\ pc < Len(program) /\ program[pc + 1] \div 4 = 61
  /\ registers[1] = PyInt(2147483647)

\* C10: program counter - pc starts at 0, a step that leaves the machine
\* running (a successfully executed instruction) advances pc by exactly the
\* declared width of the opcode it executed, and no step decreases pc.
C10_ProgramCounter ==
  /\ pc = 0
  /\ [][/\ pc' >= pc
        /\ vm_status' = "running" =>
             pc' = pc + DeclaredWidth(MnemonicOfCode(LeadBits))]_vars

\* a run executed a 6-byte, a 2-byte and a 3-byte instruction and halted
C10_Witness ==
  /\ vm_status = "halted"
  /\ Len(program) = 11 /\ pc = 11
  /\ program[1] \div 4 = 57 /\ program[7] \div 4 = 28 /\ program[9] \div 4 = 19

\* execute has stopped: it returned, or it raised a fatal error
Stopped == vm_status \in {"halted", "failed"}

\* C11: termination - on every image, valid or not, execute eventually
\* stops, by returning once pc has reached the end of the image or by raising
\* a fatal error; no image makes the loop run forever.
C11_Termination == <>Stopped

\* execute returned after running the three instructions of a 15-byte image
C11_Witness ==
  /\ vm_status = "halted" /\ Len(program) = 15 /\ pc = 15
  /\ registers[0] = PyInt(5) /\ registers[1] = PyInt(1)

\* a request of the form start:end - decimal digits, a colon, decimal digits
\* and nothing else - with start <= end < memory size
ValidRequest(s) ==
  /\ Len(s) = 3 /\ IsDigits(s[1]) /\ s[2] = ":" /\ IsDigits(s[3])
  /\ ~int(s[1]).neg /\ Leq(int(s[1]), int(s[3])) /\ Fits(int(s[3]), 8)

\* C12: range request and result document - a request that is malformed or
\* has start > end, start < 0 or end >= memory size ends the run with an error
\* and no result; the result file is written only when execute returned and
\* the request is valid; after a fatal error no result file is written.
C12_RangeAndResult ==
  /\ result_file.written =>
        vm_status = "halted" /\ vm_exit = 0 /\ ValidRequest(range_arg)
  /\ vm_status = "failed" => ~result_file.written /\ vm_exit = 1
  /\ (vm_status = "halted" /\ vm_exit # -1 /\ ~ValidRequest(range_arg)) =>
        vm_exit = 1 /\ ~result_file.written

(***************************************************************************)
(* Instruction effects, read off the bytes at pc by integer arithmetic     *)
(***************************************************************************)
\* the k-th byte of the instruction at pc
ByteAt(k) == program[pc + k]

\* at least w bytes are left at pc
Complete(w) == Len(program) - pc >= w

\* bits 6..10, 11..15 and 16..20 of the instruction at pc
FieldB5 == (ByteAt(1) % 4) * 8 + ByteAt(2) \div 32
FieldC5 == ByteAt(2) % 32
FieldD5 == ByteAt(3) \div 8

\* bits 6..36 and 37..41 of the 6-byte instruction at pc
ImmediateB ==
  (ByteAt(1) % 4) * 2^29 + ByteAt(2) * 2^21 + ByteAt(3) * 2^13
    + ByteAt(4) * 2^5 + ByteAt(5) \div 8
TargetC == (ByteAt(5) % 8) * 4 + ByteAt(6) \div 64

\* C13: LOAD_CONST effect - a complete LOAD_CONST(B, C) at pc sets
\* registers[C] to B and leaves every other register and every memory cell
\* as it was.
C13_LoadConst ==
  [][(Fetching /\ LeadBits = 57 /\ Complete(6)) =>
       /\ registers' = [registers EXCEPT ![TargetC] = PyInt(ImmediateB)]
       /\ memory' = memory]_vars

\* LOAD_CONST 2^31 - 1 -> r1 has run on the fresh machine
C13_Witness ==
  /\ pc = 6 /\ program[1] \div 4 = 57
  /\ registers[1] = PyInt(2147483647)
  /\ \A i \in (0..31) \ {1} : registers[i] = PyInt(0)

\* C14: LEQ effect - a complete LEQ(B, C, D) at pc sets registers[C] to 1
\* when the pre-step registers[B] <= registers[D] and to 0 otherwise, also
\* when C is B or D, leaving every other register and all memory as it was.
C14_Leq ==
  [][(Fetching /\ LeadBits = 19 /\ Complete(3)) =>
       /\ registers' =
            [registers EXCEPT ![FieldC5] =
               IF ToNat(registers[FieldB5]) <= ToNat(registers[FieldD5])
               THEN PyInt(1) ELSE PyInt(0)]
       /\ memory' = memory]_vars

\* LEQ r1 <- (r0 <= r1) has run after LOAD_CONST 255 -> r1: the result
\* replaced the operand it was computed from
C14_Witness ==
  /\ pc = 9 /\ program[4] = 7 /\ program[7] \div 4 = 19
  /\ registers[1] = PyInt(1)

\* the cell a complete WRITE_MEM at pc addresses; memory_size stands for
\* every address beyond the memory
WriteAddr ==
  LET base == ToNat(registers[FieldC5])
  IN IF base >= memory_size THEN memory_size ELSE base + FieldD5

\* the cell a complete READ_MEM at pc addresses
ReadAddr == ToNat(registers[FieldC5])

\* C15: write-then-read - an in-bounds WRITE_MEM(B, C, D) leaves registers[B]
\* in the cell registers[C] + D, and an in-bounds READ_MEM(B', C') of a cell
\* that a WRITE_MEM stored to sets registers[B'] to the value of the latest
\* such WRITE_MEM.
C15_WriteThenRead ==
  [][/\ (Fetching /\ LeadBits = 61 /\ Complete(3) /\ WriteAddr < memory_size) =>
          /\ memory'[WriteAddr] = registers[FieldB5]
          /\ last_write'[WriteAddr] = registers[FieldB5]
     /\ (/\ Fetching /\ LeadBits = 28 /\ Complete(2)
         /\ ReadAddr < memory_size /\ ReadAddr \in DOMAIN last_write) =>
          registers'[FieldB5] = last_write[ReadAddr]]_vars

\* r0 = 5 was written to cell 0 and read back into r2
C15_Witness ==
  /\ pc = 11 /\ program[7] \div 4 = 61 /\ program[10] \div 4 = 28
  /\ 0 \in DOMAIN last_write
  /\ memory[0] = PyInt(5) /\ registers[2] = PyInt(5)

\* C16: memory frame - only WRITE_MEM changes memory: LOAD_CONST, READ_MEM
\* and LEQ steps, failing steps and the steps after execute leave every cell
\* as it was, and a WRITE_MEM step changes at most the cell it addresses and
\* no register.
C16_MemoryFrame ==
  [][/\ ~(Fetching /\ LeadBits = 61 /\ Complete(3)) => memory' = memory
     /\ (Fetching /\ LeadBits = 61 /\ Complete(3)) =>
          /\ registers' = registers
          /\ \A a \in 0..(memory_size - 1) :
                a # WriteAddr => memory'[a] = memory[a]]_vars

\* WRITE_MEM has stored r0 = 5 into cell 0 and nothing else changed
C16_Witness ==
  /\ pc = 9 /\ program[7] \div 4 = 61
  /\ memory[0] = PyInt(5) /\ registers[0] = PyInt(5)
  /\ \A a \in 1..(memory_size - 1) : memory[a] = PyInt(0)

\* a complete READ_MEM or WRITE_MEM is at pc
AddressingAtPc ==
  /\ pc < Len(program) /\ LeadBits \in {28, 61}
  /\ Complete(DeclaredWidth(MnemonicOfCode(LeadBits)))

\* C19: value bound - on a machine that started zeroed, whatever the image,
\* every register and every memory cell holds a value in 0..2^31 - 1 in
\* every reachable state; so the address a READ_MEM or WRITE_MEM computes is
\* never negative, and a MemoryOutOfBounds failure is always a failure of
\* the upper-bound check.
C19_ValueBound ==
  /\ \A i \in 0..31 : Fits(registers[i], 31)
  /\ \A a \in 0..(memory_size - 1) : Fits(memory[a], 31)
  /\ AddressingAtPc => ~AddressAtPc.neg
  /\ vm_error = "MemoryOutOfBounds" => ~Lt(AddressAtPc, PyInt(memory_size))

\* execute returned with the largest value, 2^31 - 1, in a register
C19_Witness ==
  /\ vm_status = "halted"
  /\ registers[1] = PyInt(2147483647)

\* C20: pc bound - in every reachable state 0 <= pc <= image length, for
\* corrupt images too; a run that returned has pc equal to the image length;
\* on the empty image the first step is the return, with pc = 0 and every
\* register and memory cell zero.
C20_PcBound ==
  /\ [](/\ 0 <= pc /\ pc <= Len(program)
        /\ vm_status = "halted" => pc = Len(program)
        /\ Len(program) = 0 =>
             /\ pc = 0 /\ vm_status # "failed"
             /\ \A i \in 0..31 : registers[i] = PyInt(0)
             /\ \A a \in 0..(memory_size - 1) : memory[a] = PyInt(0))
  /\ [][(Len(program) = 0 /\ vm_status = "running") =>
          vm_status' = "halted"]_vars

\* execute returned on a corrupt image: 4 bytes of a LOAD_CONST and 2 bytes
\* of a WRITE_MEM were run as one LOAD_CONST
C20_Witness ==
  /\ vm_status = "halted"
  /\ program = <<228, 0, 0, 0, 244, 1>> /\ pc = 6

(***************************************************************************)
(* Properties of the two tools together                                    *)
(***************************************************************************)
\* the instructions (by their index in the source) that start at pc
InstructionsAtPc == {k \in 1..(Len(EncodedLines) + 1) : OffsetOf(k) = pc}

\* C17: assembler/interpreter agreement - when the interpreter runs on the
\* image the assembler wrote, it never fails with UnknownOpcode or
\* TruncatedInstruction; pc is always the offset of a source instruction or
\* the end of the image; the step taken at the offset of the k-th source
\* instruction decodes its mnemonic and its operands; and the run ends
\* either with MemoryOutOfBounds or by returning at the offset after the
\* last instruction, one step per source instruction.
C17_Agreement ==
  image_src = "assembled" =>
    /\ InstructionsAtPc # {}
    /\ vm_error \notin {"UnknownOpcode", "TruncatedInstruction"}
    /\ vm_status = "failed" => vm_error = "MemoryOutOfBounds"
    /\ vm_status = "halted" => pc = OffsetOf(Len(EncodedLines) + 1)
    /\ Fetching =>
         \A k \in InstructionsAtPc :
           /\ k <= Len(EncodedLines)
           /\ LET n == EncodedLines[k]
                  toks == Tail(resplit(Stripped(n)))
              IN /\ KindAtPc = MnemonicOf(n)
                 /\ ~Truncated(program, pc, KindAtPc)
                 /\ FieldTuple(DecodeAt(program, pc, KindAtPc)) =
                      [i \in 1..Len(toks) |-> int(toks[i])]

\* the interpreter ran the three instructions of an assembled image, of
\* widths 6, 2 and 3, and returned
C17_Witness ==
  /\ image_src = "assembled" /\ vm_status = "halted"
  /\ Len(EncodedLines) = 3 /\ pc = 11

\* 2^u for the u unused trailing bits of an instruction
UnusedModulus(mnemonic) ==
  CASE mnemonic = "LOAD_CONST" -> 64
    [] mnemonic = "READ_MEM" -> 1
    [] mnemonic \in {"WRITE_MEM", "LEQ"} -> 8

\* offset (1-based) of the last byte of the k-th instruction of the image
LastByteOf(k) == OffsetOf(k) + DeclaredWidth(MnemonicOf(EncodedLines[k]))

\* image differs from the image file at most in unused trailing bits
SameButUnused(image) ==
  /\ Len(image) = Len(out_file.data)
  /\ \A j \in 1..Len(image) :
       LET last == {k \in 1..Len(EncodedLines) : LastByteOf(k) = j}
       IN IF last = {} THEN image[j] = out_file.data[j]
          ELSE \A k \in last :
                 image[j] \div UnusedModulus(MnemonicOf(EncodedLines[k])) =
                   out_file.data[j] \div UnusedModulus(MnemonicOf(EncodedLines[k]))

\* C18: unused trailing bits - in the image the assembler writes the unused
\* trailing bits of every instruction (6 in LOAD_CONST, 3 in WRITE_MEM and
\* LEQ) are zero; and a run on an image that differs from it only in those
\* bits ends with the same registers, memory and pc, and the same outcome,
\* as the run on the image itself.
C18_UnusedBits ==
  /\ out_file.written =>
       \A k \in 1..Len(EncodedLines) :
         out_file.data[LastByteOf(k)] % UnusedModulus(MnemonicOf(EncodedLines[k])) = 0
  /\ image_src = "junk" => SameButUnused(program)
  /\ (image_src \in {"assembled", "junk"} /\ Stopped) =>
       LET ref == execute(Loaded(out_file.data))
       IN /\ registers = ref.registers /\ memory = ref.memory /\ pc = ref.pc
          /\ vm_status = ref.status /\ vm_error = ref.error

\* a run returned on an image whose unused bits were all set, after a
\* LOAD_CONST, a WRITE_MEM and a LEQ
C18_Witness ==
  /\ image_src = "junk" /\ vm_status = "halted"
  /\ program # out_file.data
  /\ pc = 12 /\ memory[3] = PyInt(5)
====
